---- MODULE Spec2Model ----
(***************************************************************************)
(* Model of src/index.js of portage-action: run() mirrors a list of        *)
(* container images (pull, tag, push, inspect) and reports the outcome.    *)
(*                                                                         *)
(* JavaScript runs each stretch of code between two awaits to completion,  *)
(* so the states of the model are the points where run() is suspended on   *)
(* an engine call (pc names the call in flight) plus the loop head and the *)
(* report.  Every effect on the outside world (engine invocation and its   *)
(* termination, core.setOutput, core.setFailed, core.warning) is appended  *)
(* to log in program order.                                                *)
(***************************************************************************)
EXTENDS Integers, Sequences, FiniteSets, TLC

VARIABLES imagesInput, imagesFileInput, fileContent,
          pc, images, i, results, successCount, digest, log

vars == <<imagesInput, imagesFileInput, fileContent,
          pc, images, i, results, successCount, digest, log>>

(* ------------------------------ bounds --------------------------------- *)

\* longest JSON array supplied as input
MaxImages == 2

(* --------------------------- JavaScript values -------------------------- *)

\* the value of a property that is not there
Undefined == "<undefined>"

\* an object keeps only the keys it was written with; null and numbers are
\* tagged so that property access can tell them apart
Null == [t |-> "null"]

Num == [t |-> "num"]

D1 == [source |-> "a:1", destination |-> "b:1", architecture |-> "linux/amd64"]

D2 == [source |-> "x:1", destination |-> "y:1", architecture |-> "linux/arm64"]

NoArch == [source |-> "a:1", destination |-> "b:1"]

NoDest == [source |-> "x:1", architecture |-> "linux/arm64"]

EmptySrc == [source |-> "", destination |-> "y:1", architecture |-> "linux/arm64"]

ValidElems == {D1, D2}

Elems == ValidElems \cup {NoArch, NoDest, EmptySrc, Null, Num}

Arr(items) == [t |-> "arr", items |-> items]

\* Array.isArray
IsArray(v) == "t" \in DOMAIN v /\ v.t = "arr"

\* v.k for a non-null v: undefined when the key is absent
Get(v, k) == IF k \in DOMAIN v THEN v[k] ELSE Undefined

\* JavaScript truthiness of a property value (a string or undefined)
Truthy(x) == x # Undefined /\ x # ""

(* ------------------------------- JSON text ------------------------------ *)

\* a JSON text is a sequence of tokens: brackets, commas and the text of one
\* non-array value
LBr == [tok |-> "["]

RBr == [tok |-> "]"]

Comma == [tok |-> ","]

Val(v) == [tok |-> "val", v |-> v]

RECURSIVE JoinItems(_)
JoinItems(s) ==
  IF Len(s) = 0 THEN << >>
  ELSE IF Len(s) = 1 THEN << Val(s[1]) >>
  ELSE << Val(s[1]), Comma >> \o JoinItems(Tail(s))

\* JSON.stringify
JSONStringify(v) ==
  IF IsArray(v) THEN << LBr >> \o JoinItems(v.items) \o << RBr >>
  ELSE << Val(v) >>

\* the inside of a pair of brackets: empty, or values separated by commas
ItemsWellFormed(s) ==
  \/ Len(s) = 0
  \/ /\ Len(s) % 2 = 1
     /\ \A k \in 1..Len(s) :
          IF k % 2 = 1 THEN s[k].tok = "val" ELSE s[k].tok = ","

ItemsOf(s) == [k \in 1..((Len(s) + 1) \div 2) |-> s[2 * k - 1].v]

\* JSON.parse: the value, or the SyntaxError it throws
JSONParse(text) ==
  IF Len(text) = 1 /\ text[1].tok = "val"
    THEN [ok |-> TRUE, value |-> text[1].v]
  ELSE IF /\ Len(text) >= 2
          /\ text[1].tok = "["
          /\ text[Len(text)].tok = "]"
          /\ ItemsWellFormed(SubSeq(text, 2, Len(text) - 1))
    THEN [ok |-> TRUE,
          value |-> Arr(ItemsOf(SubSeq(text, 2, Len(text) - 1)))]
  ELSE [ok |-> FALSE, message |-> "Unexpected end of JSON input"]

(* ------------------------------- inputs -------------------------------- *)

SeqsUpTo(S, n) == UNION {[1..k -> S] : k \in 0..n}

JSONValues == Elems \cup {Arr(s) : s \in SeqsUpTo(Elems, MaxImages)}

\* texts that do not parse: empty, an unclosed array, a dangling comma
Malformed == {<< >>, << LBr, Val(D1) >>, << LBr, Val(D1), Comma, RBr >>}

Texts == {JSONStringify(v) : v \in JSONValues} \cup Malformed

\* contents of the file: the two channels differ in lines 26-27 only and
\* share everything from JSON.parse on, so the file carries the same values
\* with arrays of at most two elements
FileTexts ==
  {JSONStringify(v) : v \in Elems \cup {Arr(s) : s \in SeqsUpTo(Elems, 2)}}
    \cup Malformed

\* core.getInput returns '' for an input that is not set: the empty text for
\* images (a member of Malformed), the empty path for images-file
NoPath == ""

Path == "images.json"

\* what fs.readFileSync finds at Path: a text, or no readable file
NoFile == << [tok |-> "ENOENT"] >>

(* ------------------------------ the engine ------------------------------ *)

\* messages of the Error that exec rejects with
ExecErrors == {"The process 'docker' failed with exit code 1",
               "Unable to locate executable file: docker"}

\* standard output of the two inspect queries, as pieces of text
DigestStdouts == {<<"b@sha256:aa", "\n">>, <<"\n">>}

SizeStdouts == {<<" ", "1024", "\n">>, << >>}

IsSpace(c) == c \in {" ", "\n", "\t"}

RECURSIVE TrimStart(_)
TrimStart(s) ==
  IF Len(s) > 0 /\ IsSpace(s[1]) THEN TrimStart(Tail(s)) ELSE s

RECURSIVE TrimEnd(_)
TrimEnd(s) ==
  IF Len(s) > 0 /\ IsSpace(s[Len(s)])
    THEN TrimEnd(SubSeq(s, 1, Len(s) - 1)) ELSE s

RECURSIVE Concat(_)
Concat(s) == IF Len(s) = 0 THEN "" ELSE s[1] \o Concat(Tail(s))

\* String.prototype.trim
Trim(s) == Concat(TrimEnd(TrimStart(s)))

\* Number.prototype.toString for a natural number
Digit(d) == <<"0", "1", "2", "3", "4", "5", "6", "7", "8", "9">>[d + 1]

RECURSIVE NumToString(_)
NumToString(n) ==
  IF n < 10 THEN Digit(n) ELSE NumToString(n \div 10) \o Digit(n % 10)

(* --------------------------- effects in the log ------------------------- *)

\* exec.exec / exec.getExecOutput of docker with argv args, for images[idx]
Exec(idx, args) == [ev |-> "exec", i |-> idx, args |-> args]

\* the engine process started with argv args ended: successfully with standard
\* output out, or with the error whose message is out
Exit(idx, args, ok, out) ==
  [ev |-> "exit", i |-> idx, args |-> args, ok |-> ok, out |-> out]

SetOutput(name, value) == [ev |-> "setOutput", name |-> name, value |-> value]

SetFailed(message) == [ev |-> "setFailed", message |-> message]

Warning(message) == [ev |-> "warning", message |-> message]

(* ------------------------- run(): configuration ------------------------- *)

Throw(message) == [ok |-> FALSE, message |-> message]

\* ParseImages, without lines 29-31: a single value read from the file is
\* not wrapped, and iterating over it throws
ParseImagesFileUnwrapped(inline, file, content) ==
  LET parsed == IF Len(inline) > 0 THEN JSONParse(inline)
                ELSE IF content = NoFile
                  THEN Throw("ENOENT: no such file or directory")
                ELSE JSONParse(content)
      source == IF Len(inline) > 0 THEN "images input"
                ELSE "images file: " \o file
  IN IF parsed.ok
       THEN IF IsArray(parsed.value)
              THEN [ok |-> TRUE, images |-> parsed.value.items]
            ELSE IF Len(inline) > 0
              THEN [ok |-> TRUE, images |-> << parsed.value >>]
            ELSE Throw("images is not iterable")
       ELSE Throw("Invalid images format in " \o source \o
                  ". Expected JSON array or object: " \o parsed.message)

\* lines 18-36: parse the channel that was supplied and coerce a non-array
\* value into a one-element array
ParseImages(inline, file, content) ==
  LET parsed == IF Len(inline) > 0 THEN JSONParse(inline)
                ELSE IF content = NoFile
                  THEN Throw("ENOENT: no such file or directory")
                ELSE JSONParse(content)
      source == IF Len(inline) > 0 THEN "images input"
                ELSE "images file: " \o file
  IN IF parsed.ok
       THEN [ok |-> TRUE,
             images |-> IF IsArray(parsed.value) THEN parsed.value.items
                        ELSE << parsed.value >>]
       ELSE Throw("Invalid images format in " \o source \o
                  ". Expected JSON array or object: " \o parsed.message)

MissingFields ==
  "Each image mapping must have \"source\", \"destination\", and \"architecture\" properties"

\* CheckFields, had it looked at images[0] only
CheckFieldsFirstOnly(s) ==
  IF Len(s) = 0 THEN [ok |-> TRUE]
  ELSE IF s[1] = Null
    THEN Throw("Cannot read properties of null (reading 'source')")
  ELSE IF \/ ~Truthy(Get(s[1], "source"))
          \/ ~Truthy(Get(s[1], "destination"))
          \/ ~Truthy(Get(s[1], "architecture"))
    THEN Throw(MissingFields)
  ELSE [ok |-> TRUE]

\* lines 38-42: the first element that is null or lacks a field throws
RECURSIVE CheckFields(_)
CheckFields(s) ==
  IF Len(s) = 0 THEN [ok |-> TRUE]
  ELSE IF s[1] = Null
    THEN Throw("Cannot read properties of null (reading 'source')")
  ELSE IF \/ ~Truthy(Get(s[1], "source"))
          \/ ~Truthy(Get(s[1], "destination"))
          \/ ~Truthy(Get(s[1], "architecture"))
    THEN Throw(MissingFields)
  ELSE CheckFields(Tail(s))

\* Validate, had it also refused a list without elements
ValidateRefusesEmpty(inline, file, content) ==
  IF Len(inline) = 0 /\ file = NoPath
    THEN Throw("Either \"images\" or \"images-file\" input must be provided")
  ELSE IF Len(inline) > 0 /\ file # NoPath
    THEN Throw("Only one of \"images\" or \"images-file\" inputs should be provided, not both")
  ELSE LET p == ParseImages(inline, file, content)
       IN IF ~p.ok THEN p
          ELSE IF Len(p.images) = 0 THEN Throw("No images to mirror")
          ELSE LET c == CheckFields(p.images)
               IN IF c.ok THEN p ELSE c

\* Validate, without the check of lines 14-16: the inline input wins
ValidateInlineWins(inline, file, content) ==
  IF Len(inline) = 0 /\ file = NoPath
    THEN Throw("Either \"images\" or \"images-file\" input must be provided")
  ELSE LET p == ParseImages(inline, file, content)
       IN IF ~p.ok THEN p
          ELSE LET c == CheckFields(p.images)
               IN IF c.ok THEN p ELSE c

\* lines 7-42: the validated list, or the configuration error thrown
Validate(inline, file, content) ==
  IF Len(inline) = 0 /\ file = NoPath
    THEN Throw("Either \"images\" or \"images-file\" input must be provided")
  ELSE IF Len(inline) > 0 /\ file # NoPath
    THEN Throw("Only one of \"images\" or \"images-file\" inputs should be provided, not both")
  ELSE LET p == ParseImages(inline, file, content)
       IN IF ~p.ok THEN p
          ELSE LET c == CheckFields(p.images)
               IN IF c.ok THEN p ELSE c

(* ------------------------------ run(): state ---------------------------- *)

Init ==
  /\ imagesInput \in Texts
  /\ imagesFileInput \in {NoPath, Path}
  /\ fileContent \in IF imagesFileInput = NoPath THEN {NoFile}
                     ELSE IF Len(imagesInput) > 0 THEN {NoFile, JSONStringify(D1)}
                     ELSE FileTexts \cup {NoFile}
  /\ pc = "start"
  /\ images = << >>
  /\ i = 0
  /\ results = << >>
  /\ successCount = 0
  /\ digest = ""
  /\ log = << >>

\* lines 7-47 and the catch of lines 108-110
Start ==
  /\ pc = "start"
  /\ LET v == Validate(imagesInput, imagesFileInput, fileContent)
     IN IF v.ok
          THEN /\ images' = v.images
               /\ pc' = "loop"
               /\ log' = log
          ELSE /\ images' = images
               /\ pc' = "done"
               /\ log' = Append(log,
                           SetFailed("Action failed with error: " \o v.message))
  /\ results' = << >>
  /\ successCount' = 0
  /\ i' = 0
  /\ UNCHANGED <<imagesInput, imagesFileInput, fileContent, digest>>

(* ----------------------------- run(): the loop -------------------------- *)

\* line 50: images[idx] destructured (Sequences count from 1)
Image(idx) ==
  [source |-> Get(images[idx + 1], "source"),
   destination |-> Get(images[idx + 1], "destination"),
   architecture |-> Get(images[idx + 1], "architecture")]

\* PullArgs, without the platform qualifier of lines 57-59
PullArgsNoPlatform(image) == <<"pull", image.source>>

\* lines 56-60
PullArgs(image) ==
  (IF Truthy(image.architecture)
     THEN <<"pull", "--platform", image.architecture>>
     ELSE <<"pull">>) \o << image.source >>

\* line 66
TagArgs(image) == <<"tag", image.source, image.destination>>

\* line 69
PushArgs(image) == <<"push", image.destination>>

DigestFormat == "--format={{index .RepoDigests 0}}"

SizeFormat == "--format={{.Size}}"

\* lines 119-123
DigestArgs(image) == <<"inspect", DigestFormat, image>>

\* lines 126-130
SizeArgs(image) == <<"inspect", SizeFormat, image>>

\* FailedOutcome, had it reported a fixed text instead of imageError.message
FailedOutcomeFixedText(image, message) ==
  [source |-> image.source, destination |-> image.destination,
   digest |-> "", size |-> "", status |-> "failed", error |-> "mirror failed"]

\* lines 86-93
FailedOutcome(image, message) ==
  [source |-> image.source, destination |-> image.destination,
   digest |-> "", size |-> "", status |-> "failed", error |-> message]

\* SuccessOutcome, had it copied the source into both reference fields
SuccessOutcomeSourceTwice(image, imageInfo) ==
  [source |-> image.source, destination |-> image.source,
   digest |-> imageInfo.digest, size |-> imageInfo.size, status |-> "success"]

\* lines 73-79
SuccessOutcome(image, imageInfo) ==
  [source |-> image.source, destination |-> image.destination,
   digest |-> imageInfo.digest, size |-> imageInfo.size, status |-> "success"]

\* LoopHead, had the pull of the following image been started alongside
LoopHeadPullsAhead ==
  /\ pc = "loop"
  /\ IF i < Len(images)
       THEN /\ pc' = "pull"
            /\ log' = log \o << Exec(i, PullArgs(Image(i))) >> \o
                 (IF i + 1 < Len(images)
                    THEN << Exec(i + 1, PullArgs(Image(i + 1))) >> ELSE << >>)
       ELSE /\ pc' = "report"
            /\ log' = log
  /\ UNCHANGED <<imagesInput, imagesFileInput, fileContent,
                 images, i, results, successCount, digest>>

\* lines 49-63: leave the loop, or start the next image and issue its pull
LoopHead ==
  /\ pc = "loop"
  /\ IF i < Len(images)
       THEN /\ pc' = "pull"
            /\ log' = Append(log, Exec(i, PullArgs(Image(i))))
       ELSE /\ pc' = "report"
            /\ log' = log
  /\ UNCHANGED <<imagesInput, imagesFileInput, fileContent,
                 images, i, results, successCount, digest>>

\* Catch, had a first failure of an image sent the loop over it once more
CatchRetriesOnce(message, effects) ==
  IF \E k \in DOMAIN log : log[k].ev = "exit" /\ log[k].i = i /\ ~log[k].ok
    THEN /\ results' = Append(results, FailedOutcome(Image(i), message))
         /\ i' = i + 1
         /\ pc' = "loop"
         /\ log' = log \o effects
         /\ UNCHANGED <<successCount, digest>>
    ELSE /\ pc' = "loop"
         /\ log' = log \o effects
         /\ UNCHANGED <<i, results, successCount, digest>>

\* Catch, had the image's error been thrown on to the catch of lines 108-110
CatchRethrows(message, effects) ==
  /\ pc' = "done"
  /\ log' = log \o effects \o
       << SetFailed("Action failed with error: " \o message) >>
  /\ UNCHANGED <<i, results, successCount, digest>>

\* Catch, had the try block enclosed the loop: a failure ends the batch
CatchLeavesLoop(message, effects) ==
  /\ results' = Append(results, FailedOutcome(Image(i), message))
  /\ i' = i + 1
  /\ pc' = "report"
  /\ log' = log \o effects
  /\ UNCHANGED <<successCount, digest>>

\* lines 84-94 and the i++ of line 49: the catch of one image's try block
Catch(message, effects) ==
  /\ results' = Append(results, FailedOutcome(Image(i), message))
  /\ i' = i + 1
  /\ pc' = "loop"
  /\ log' = log \o effects
  /\ UNCHANGED <<successCount, digest>>

\* Mirrored, without the successCount++ of line 81
MirroredUncounted(imageInfo, effects) ==
  /\ results' = Append(results, SuccessOutcome(Image(i), imageInfo))
  /\ i' = i + 1
  /\ pc' = "loop"
  /\ log' = log \o effects
  /\ UNCHANGED <<successCount, digest>>

\* lines 71-82 and the i++ of line 49: getImageInfo has returned imageInfo
Mirrored(imageInfo, effects) ==
  /\ results' = Append(results, SuccessOutcome(Image(i), imageInfo))
  /\ successCount' = successCount + 1
  /\ i' = i + 1
  /\ pc' = "loop"
  /\ log' = log \o effects
  /\ UNCHANGED digest

\* line 63 returns or throws; lines 65-66 issue the tag
PullDone ==
  /\ pc = "pull"
  /\ \E ok \in BOOLEAN : \E message \in ExecErrors :
       IF ok
         THEN /\ pc' = "tag"
              /\ log' = log \o << Exit(i, PullArgs(Image(i)), TRUE, << >>),
                                   Exec(i, TagArgs(Image(i))) >>
              /\ UNCHANGED <<i, results, successCount, digest>>
         ELSE Catch(message, << Exit(i, PullArgs(Image(i)), FALSE, message) >>)
  /\ UNCHANGED <<imagesInput, imagesFileInput, fileContent, images>>

\* TagDone, had the tag been run with its exit code ignored
TagDoneUnchecked ==
  /\ pc = "tag"
  /\ \E ok \in BOOLEAN : \E message \in ExecErrors :
       /\ pc' = "push"
       /\ log' = log \o
            << Exit(i, TagArgs(Image(i)), ok, IF ok THEN << >> ELSE message),
               Exec(i, PushArgs(Image(i))) >>
       /\ UNCHANGED <<i, results, successCount, digest>>
  /\ UNCHANGED <<imagesInput, imagesFileInput, fileContent, images>>

\* line 66 returns or throws; lines 68-69 issue the push
TagDone ==
  /\ pc = "tag"
  /\ \E ok \in BOOLEAN : \E message \in ExecErrors :
       IF ok
         THEN /\ pc' = "push"
              /\ log' = log \o << Exit(i, TagArgs(Image(i)), TRUE, << >>),
                                   Exec(i, PushArgs(Image(i))) >>
              /\ UNCHANGED <<i, results, successCount, digest>>
         ELSE Catch(message, << Exit(i, TagArgs(Image(i)), FALSE, message) >>)
  /\ UNCHANGED <<imagesInput, imagesFileInput, fileContent, images>>

\* line 69 returns or throws; lines 71 and 115-123 enter getImageInfo and
\* issue the digest query
PushDone ==
  /\ pc = "push"
  /\ \E ok \in BOOLEAN : \E message \in ExecErrors :
       IF ok
         THEN /\ pc' = "digest"
              /\ digest' = ""
              /\ log' = log \o << Exit(i, PushArgs(Image(i)), TRUE, << >>),
                                   Exec(i, DigestArgs(Image(i).destination)) >>
              /\ UNCHANGED <<i, results, successCount>>
         ELSE Catch(message, << Exit(i, PushArgs(Image(i)), FALSE, message) >>)
  /\ UNCHANGED <<imagesInput, imagesFileInput, fileContent, images>>

\* DigestDone, had each query a try/catch of its own: the size query is
\* issued whatever the digest query did
DigestDoneSizeAnyway ==
  /\ pc = "digest"
  /\ \E ok \in BOOLEAN : \E message \in ExecErrors : \E stdout \in DigestStdouts :
       /\ pc' = "size"
       /\ digest' = IF ok THEN Trim(stdout) ELSE digest
       /\ log' = log \o
            << Exit(i, DigestArgs(Image(i).destination), ok,
                    IF ok THEN stdout ELSE message) >> \o
            (IF ok THEN << >>
             ELSE << Warning("Could not retrieve image info: " \o message) >>) \o
            << Exec(i, SizeArgs(Image(i).destination)) >>
       /\ UNCHANGED <<i, results, successCount>>
  /\ UNCHANGED <<imagesInput, imagesFileInput, fileContent, images>>

\* DigestDone, had getImageInfo no try/catch of its own: the error of the
\* digest query reaches the catch of the image
DigestDoneUncaught ==
  /\ pc = "digest"
  /\ \E ok \in BOOLEAN : \E message \in ExecErrors : \E stdout \in DigestStdouts :
       IF ok
         THEN /\ pc' = "size"
              /\ digest' = Trim(stdout)
              /\ log' = log \o
                   << Exit(i, DigestArgs(Image(i).destination), TRUE, stdout),
                      Exec(i, SizeArgs(Image(i).destination)) >>
              /\ UNCHANGED <<i, results, successCount>>
         ELSE Catch(message,
                    << Exit(i, DigestArgs(Image(i).destination), FALSE, message) >>)
  /\ UNCHANGED <<imagesInput, imagesFileInput, fileContent, images>>

\* lines 119-130 and 133-137: the digest query returns and the size query is
\* issued, or it throws and getImageInfo returns what it has
DigestDone ==
  /\ pc = "digest"
  /\ \E ok \in BOOLEAN : \E message \in ExecErrors : \E stdout \in DigestStdouts :
       IF ok
         THEN /\ pc' = "size"
              /\ digest' = Trim(stdout)
              /\ log' = log \o
                   << Exit(i, DigestArgs(Image(i).destination), TRUE, stdout),
                      Exec(i, SizeArgs(Image(i).destination)) >>
              /\ UNCHANGED <<i, results, successCount>>
         ELSE Mirrored([digest |-> digest, size |-> ""],
                       << Exit(i, DigestArgs(Image(i).destination), FALSE, message),
                          Warning("Could not retrieve image info: " \o message) >>)
  /\ UNCHANGED <<imagesInput, imagesFileInput, fileContent, images>>

\* lines 126-137: the size query returns or throws, getImageInfo returns
SizeDone ==
  /\ pc = "size"
  /\ \E ok \in BOOLEAN : \E message \in ExecErrors : \E stdout \in SizeStdouts :
       IF ok
         THEN Mirrored([digest |-> digest, size |-> Trim(stdout)],
                       << Exit(i, SizeArgs(Image(i).destination), TRUE, stdout) >>)
         ELSE Mirrored([digest |-> digest, size |-> ""],
                       << Exit(i, SizeArgs(Image(i).destination), FALSE, message),
                          Warning("Could not retrieve image info: " \o message) >>)
  /\ UNCHANGED <<imagesInput, imagesFileInput, fileContent, images>>

(* ----------------------------- run(): the report ------------------------ *)

\* Report, had the shortfall been thrown before the outputs are written
ReportThrowsShortfall ==
  /\ pc = "report"
  /\ pc' = "done"
  /\ log' = log \o
       (IF successCount = Len(images)
          THEN << SetOutput("results", JSONStringify(Arr(results))),
                  SetOutput("success-count", NumToString(successCount)),
                  SetOutput("total-count", NumToString(Len(images))) >>
          ELSE << SetFailed("Failed to sync " \o NumToString(Len(images) - successCount)
                            \o " out of " \o NumToString(Len(images)) \o " image(s)") >>)
  /\ UNCHANGED <<imagesInput, imagesFileInput, fileContent,
                 images, i, results, successCount, digest>>

\* Report, had line 105 put successCount where the number of failures goes
ReportCountsMirrored ==
  /\ pc = "report"
  /\ pc' = "done"
  /\ log' = log \o
       << SetOutput("results", JSONStringify(Arr(results))),
          SetOutput("success-count", NumToString(successCount)),
          SetOutput("total-count", NumToString(Len(images))) >> \o
       (IF successCount = Len(images) THEN << >>
        ELSE << SetFailed("Failed to sync " \o NumToString(successCount)
                          \o " out of " \o NumToString(Len(images)) \o " image(s)") >>)
  /\ UNCHANGED <<imagesInput, imagesFileInput, fileContent,
                 images, i, results, successCount, digest>>

\* Report, had line 101 asked only for some image to have been mirrored
ReportLenient ==
  /\ pc = "report"
  /\ pc' = "done"
  /\ log' = log \o
       << SetOutput("results", JSONStringify(Arr(results))),
          SetOutput("success-count", NumToString(successCount)),
          SetOutput("total-count", NumToString(Len(images))) >> \o
       (IF successCount > 0 \/ Len(images) = 0 THEN << >>
        ELSE << SetFailed("Failed to sync " \o NumToString(Len(images) - successCount)
                          \o " out of " \o NumToString(Len(images)) \o " image(s)") >>)
  /\ UNCHANGED <<imagesInput, imagesFileInput, fileContent,
                 images, i, results, successCount, digest>>

\* lines 97-106
Report ==
  /\ pc = "report"
  /\ pc' = "done"
  /\ log' = log \o
       << SetOutput("results", JSONStringify(Arr(results))),
          SetOutput("success-count", NumToString(successCount)),
          SetOutput("total-count", NumToString(Len(images))) >> \o
       (IF successCount = Len(images) THEN << >>
        ELSE << SetFailed("Failed to sync " \o NumToString(Len(images) - successCount)
                          \o " out of " \o NumToString(Len(images)) \o " image(s)") >>)
  /\ UNCHANGED <<imagesInput, imagesFileInput, fileContent,
                 images, i, results, successCount, digest>>

Next ==
  \/ Start
  \/ LoopHead
  \/ PullDone
  \/ TagDone
  \/ PushDone
  \/ DigestDone
  \/ SizeDone
  \/ Report

Spec == Init /\ [][Next]_vars

\* every engine call returns and run() is resumed: each await of lines 63-69
\* and 119-126 settles, and the synchronous stretches run to their end
FairSpec == Spec /\ WF_vars(Next)

(* ------------------------------ reading the log ------------------------- *)

\* positions of the log where docker <op> was started for images[idx]
Execs(op, idx) ==
  {k \in DOMAIN log :
     log[k].ev = "exec" /\ log[k].i = idx /\ log[k].args[1] = op}

Issued(op, idx) == Execs(op, idx) # {}

\* positions of the log where docker <op> for images[idx] ended in an error
Failures(op, idx) ==
  {k \in DOMAIN log :
     log[k].ev = "exit" /\ log[k].i = idx /\ log[k].args[1] = op /\ ~log[k].ok}

Succeeded(op, idx) ==
  \E k \in DOMAIN log :
    log[k].ev = "exit" /\ log[k].i = idx /\ log[k].args[1] = op /\ log[k].ok

TransferSteps == {"pull", "tag", "push"}

\* positions where a pull, tag or push for images[idx] ended in an error
TransferFailures(idx) ==
  {k \in DOMAIN log :
     /\ log[k].ev = "exit" /\ ~log[k].ok
     /\ log[k].i = idx /\ log[k].args[1] \in TransferSteps}

\* the values written to the output called name, in order
Written(name) ==
  SelectSeq(log, LAMBDA e : e.ev = "setOutput" /\ e.name = name)

\* the messages passed to core.setFailed, in order
FailedSignals == SelectSeq(log, LAMBDA e : e.ev = "setFailed")

EngineCalls == SelectSeq(log, LAMBDA e : e.ev = "exec")

\* the batch loop has run to its end
LoopFinished == pc = "report" \/ (pc = "done" /\ Len(Written("results")) > 0)

Successes(outcomes) ==
  Cardinality({k \in DOMAIN outcomes : outcomes[k].status = "success"})

TypeOK ==
  /\ pc \in {"start", "loop", "pull", "tag", "push", "digest", "size",
             "report", "done"}
  /\ i \in 0..Len(images)
  /\ successCount \in Nat

(* -------------------------------- claims -------------------------------- *)

\* C1: a failure of pull, tag or push for descriptor idx is recorded as the
\* failed outcome of descriptor idx, and when the loop has finished the pull
\* of every later descriptor has been issued.
C1_FailureIsolated ==
  \A idx \in 0..(Len(images) - 1) :
    TransferFailures(idx) # {} =>
      /\ idx < Len(results)
      /\ results[idx + 1].status = "failed"
      /\ results[idx + 1].source = images[idx + 1].source
      /\ results[idx + 1].destination = images[idx + 1].destination
      /\ LoopFinished =>
           \A j \in (idx + 1)..(Len(images) - 1) : Issued("pull", j)

\* an image other than the last failed and the batch has finished
C1_Witness ==
  /\ pc = "done"
  /\ Len(images) = 2
  /\ Failures("tag", 0) # {}
  /\ results[1].status = "failed"
  /\ Issued("pull", 1)

\* C2: for a valid non-empty list, when the loop has finished there is one
\* outcome per descriptor and outcome k carries the source and destination of
\* descriptor k.
C2_OneOutcomePerDescriptor ==
  (LoopFinished /\ Len(images) > 0) =>
    /\ Len(results) = Len(images)
    /\ \A k \in DOMAIN images :
         /\ results[k].source = images[k].source
         /\ results[k].destination = images[k].destination

\* two different descriptors, the first failed and the second mirrored
C2_Witness ==
  /\ LoopFinished
  /\ images = << D1, D2 >>
  /\ results[1].status = "failed"
  /\ results[2].status = "success"

\* the list the supplied channel holds, as the spec reads it: the parsed
\* value, or the one-element list of it
SuppliedText == IF Len(imagesInput) > 0 THEN imagesInput ELSE fileContent

SuppliedList ==
  LET v == JSONParse(SuppliedText).value
  IN IF IsArray(v) THEN v.items ELSE << v >>

\* C3: successCount is the number of success outcomes recorded so far and
\* lies between 0 and the number of descriptors; the emitted total-count is
\* the number of validated descriptors and the emitted success-count is the
\* number of success outcomes in the emitted results.
C3_CountsAgree ==
  /\ successCount = Successes(results)
  /\ 0 <= successCount
  /\ successCount <= Len(images)
  /\ \A k \in DOMAIN Written("total-count") :
       Written("total-count")[k].value = NumToString(Len(SuppliedList))
  /\ \A k \in DOMAIN Written("success-count") :
       /\ k \in DOMAIN Written("results")
       /\ Written("success-count")[k].value =
            NumToString(Successes(JSONParse(Written("results")[k].value).value.items))

\* the outputs of a batch of two with one success have been written
C3_Witness ==
  /\ pc = "done"
  /\ Len(images) = 2
  /\ successCount = 1
  /\ Len(Written("success-count")) = 1
  /\ Len(Written("total-count")) = 1

\* the step before each engine step of one descriptor
Before(op) == CASE op = "tag" -> "pull" [] op = "push" -> "tag"
                [] op = "inspect" -> "push"

\* C4: the engine calls of a descriptor are issued in the order pull, tag,
\* push, inspect, each only after the previous one succeeded (the pull is
\* the first call of its descriptor, every other call directly follows the
\* successful exit of the step before it), and none is issued after a
\* pull, tag or push of that descriptor failed.
C4_StepsInOrder ==
  \A k \in DOMAIN log :
    /\ log[k].ev = "exec" =>
         LET a == log[k].args
             idx == log[k].i
         IN IF a[1] = "pull"
              THEN \A m \in 1..(k - 1) :
                     log[m].ev \in {"exec", "exit"} => log[m].i # idx
              ELSE /\ a[1] \in {"tag", "push", "inspect"}
                   /\ k > 2
                   /\ log[k - 1].ev = "exit"
                   /\ log[k - 1].ok
                   /\ log[k - 1].i = idx
                   /\ log[k - 1].args[1] =
                        (IF a[1] = "inspect" /\ a[2] = SizeFormat
                           THEN "inspect" ELSE Before(a[1]))
                   /\ log[k - 2] = Exec(idx, log[k - 1].args)
    /\ (log[k].ev = "exit" /\ ~log[k].ok /\ log[k].args[1] \in TransferSteps) =>
         \A m \in (k + 1)..Len(log) :
           log[m].ev = "exec" => log[m].i # log[k].i

\* one descriptor stopped at a failed push, another went through to inspect
C4_Witness ==
  /\ pc = "done"
  /\ Failures("push", 0) # {}
  /\ ~Issued("inspect", 0)
  /\ Issued("inspect", 1)

\* C5: an outcome is failed exactly when pull, tag or push failed for its
\* descriptor; a failed outcome has empty digest and size and the message of
\* the failed step as its error; a success outcome has no error field.
C5_FailedOutcomes ==
  /\ \A idx \in Len(results)..(Len(images) - 1) : TransferFailures(idx) = {}
  /\ \A k \in DOMAIN results :
       LET failures == TransferFailures(k - 1)
       IN /\ results[k].status \in {"success", "failed"}
          /\ results[k].status = "failed" <=> failures # {}
          /\ results[k].status = "failed" =>
               /\ results[k].digest = ""
               /\ results[k].size = ""
               /\ "error" \in DOMAIN results[k]
               /\ \A m \in failures : results[k].error = log[m].out
          /\ results[k].status = "success" => "error" \notin DOMAIN results[k]

\* two failed outcomes carrying the two different messages, and a success
C5_Witness ==
  /\ Len(results) = 2
  /\ results[1].status = "failed"
  /\ results[2].status = "failed"
  /\ results[1].error # results[2].error
  /\ Failures("pull", 0) # {}
  /\ Failures("push", 1) # {}

\* positions where the inspect query with format fmt for images[idx] ended
\* in an error
QueryFailures(fmt, idx) ==
  {k \in DOMAIN log :
     /\ log[k].ev = "exit" /\ ~log[k].ok /\ log[k].i = idx
     /\ log[k].args[1] = "inspect" /\ log[k].args[2] = fmt}

DigestFailures(idx) == QueryFailures(DigestFormat, idx)

SizeFailures(idx) == QueryFailures(SizeFormat, idx)

\* the list positions whose pull, tag and push all succeeded
Transferred ==
  LET done(op) == {log[k].i : k \in {m \in DOMAIN log :
                     log[m].ev = "exit" /\ log[m].ok /\ log[m].args[1] = op}}
  IN done("pull") \cap done("tag") \cap done("push")

\* C6: a descriptor whose pull, tag and push succeeded gets a success outcome
\* and is counted in successCount whatever the inspect queries do; a failed
\* inspect query leaves its field empty and is never reported as an error of
\* the run.
C6_InspectBestEffort ==
  LET transferred == Transferred
  IN /\ \A idx \in transferred :
          IF idx < Len(results)
            THEN /\ results[idx + 1].status = "success"
                 /\ DigestFailures(idx) # {} => results[idx + 1].digest = ""
                 /\ SizeFailures(idx) # {} => results[idx + 1].size = ""
            ELSE idx = i /\ pc \in {"digest", "size"}
     /\ successCount =
          Cardinality({idx \in transferred : idx < Len(results)})
     /\ \A k \in DOMAIN FailedSignals :
          FailedSignals[k].message \notin
            {"Action failed with error: " \o m : m \in ExecErrors}

\* one image whose digest query failed and one whose size query failed, both
\* recorded as successes
C6_Witness ==
  /\ Len(results) = 2
  /\ DigestFailures(0) # {}
  /\ SizeFailures(1) # {}
  /\ results[1].status = "success"
  /\ results[2].status = "success"
  /\ results[2].digest # ""
  /\ successCount = 2

\* C7: after a successful push a failed digest query does not keep the size
\* query from being issued and its value from being recorded, and a failed
\* size query does not discard the digest.
C7_QueriesIndependent ==
  \A idx \in 0..(Len(results) - 1) :
    /\ DigestFailures(idx) # {} =>
         \E k \in Execs("inspect", idx) : log[k].args[2] = SizeFormat
    /\ SizeFailures(idx) # {} =>
         \E k \in DOMAIN log :
           /\ log[k].ev = "exit" /\ log[k].i = idx /\ log[k].ok
           /\ log[k].args[1] = "inspect" /\ log[k].args[2] = DigestFormat
           /\ results[idx + 1].digest = Trim(log[k].out)

BothAbsent == Len(imagesInput) = 0 /\ imagesFileInput = NoPath

BothPresent == Len(imagesInput) > 0 /\ imagesFileInput # NoPath

NothingDone ==
  /\ Len(EngineCalls) = 0
  /\ Len(results) = 0
  /\ Len(Written("results")) = 0
  /\ Len(Written("success-count")) = 0
  /\ Len(Written("total-count")) = 0

\* C8: with images and images-file both absent or both present the run is
\* marked failed, no engine call is issued, no outcome is produced and none
\* of the three outputs is written.
C8_ChannelsExclusive ==
  (BothAbsent \/ BothPresent) =>
    /\ NothingDone
    /\ pc \in {"start", "done"}
    /\ pc = "done" => Len(FailedSignals) = 1

\* both channels hold a valid descriptor and the run has ended
C8_Witness ==
  /\ pc = "done"
  /\ imagesInput = JSONStringify(Arr(<< D1, D2 >>))
  /\ imagesFileInput = Path
  /\ fileContent = JSONStringify(D1)
  /\ Len(FailedSignals) = 1

\* an element without a non-empty source, destination or architecture
Lacks(e) ==
  \/ e = Null
  \/ \E f \in {"source", "destination", "architecture"} :
       f \notin DOMAIN e \/ e[f] = ""

\* one channel is supplied and its text parses
ListSupplied ==
  /\ ~BothAbsent
  /\ ~BothPresent
  /\ JSONParse(SuppliedText).ok

\* C9: if any element of the parsed list lacks a non-empty source,
\* destination or architecture, the run is marked failed and no engine call
\* is issued and no outcome recorded, for any descriptor.
C9_InvalidElementAbortsAll ==
  (ListSupplied /\ LET list == SuppliedList
                   IN \E k \in DOMAIN list : Lacks(list[k])) =>
    /\ NothingDone
    /\ pc \in {"start", "done"}
    /\ pc = "done" => Len(FailedSignals) = 1

\* a valid descriptor followed by one without architecture, run ended
C9_Witness ==
  /\ pc = "done"
  /\ ListSupplied
  /\ SuppliedList = << D1, NoArch >>
  /\ Len(FailedSignals) = 1

ValidationPasses ==
  /\ ListSupplied
  /\ LET list == SuppliedList
     IN \A k \in DOMAIN list : ~Lacks(list[k])

\* C10: the run has signalled failure at its end exactly when validation
\* failed or successCount is less than the number of descriptors, and no
\* failure is signalled before the end.
C10_FailureSignal ==
  /\ pc # "done" => Len(FailedSignals) = 0
  /\ pc = "done" =>
       (Len(FailedSignals) > 0 <=>
          (~ValidationPasses \/ successCount < Len(images)))

\* two descriptors, both mirrored, the run ended without a failure signal
C10_Witness ==
  /\ pc = "done"
  /\ ValidationPasses
  /\ Len(images) = 2
  /\ successCount = 2
  /\ Len(FailedSignals) = 0

\* positions of the log where the output called name was written
WrittenAt(name) ==
  {k \in DOMAIN log : log[k].ev = "setOutput" /\ log[k].name = name}

SignalledAt == {k \in DOMAIN log : log[k].ev = "setFailed"}

OutputNames == {"results", "success-count", "total-count"}

\* C11: when validation passes, the ended run has written results (the whole
\* ordered outcome list), success-count and total-count exactly once each,
\* also when images failed, and a failure signal comes after all three and
\* is followed by no further write.
C11_OutputsAlwaysWritten ==
  (pc = "done" /\ ValidationPasses) =>
    LET list == SuppliedList
        emitted == Written("results")
    IN /\ \A name \in OutputNames : Cardinality(WrittenAt(name)) = 1
       /\ emitted[1].value = JSONStringify(Arr(results))
       /\ JSONParse(emitted[1].value).value.items = results
       /\ Len(results) = Len(list)
       /\ Written("success-count")[1].value = NumToString(Successes(results))
       /\ Written("total-count")[1].value = NumToString(Len(list))
       /\ \A k \in SignalledAt :
            \A name \in OutputNames : \A w \in WrittenAt(name) : w < k

\* every image of a batch of two failed: outputs written, then the signal
C11_Witness ==
  /\ pc = "done"
  /\ ValidationPasses
  /\ Len(images) = 2
  /\ successCount = 0
  /\ Len(Written("results")) = 1
  /\ Len(FailedSignals) = 1

\* C12: at most one engine call is in flight (every call but the last entry
\* of the log is directly followed by its own exit), a call for a descriptor
\* exists only when the outcome of every earlier descriptor has been
\* recorded, and when a call is issued no call of a later descriptor has
\* been issued before it.
C12_Sequential ==
  /\ \A k \in DOMAIN log :
       log[k].ev = "exec" =>
         /\ k < Len(log) =>
              /\ log[k + 1].ev = "exit"
              /\ log[k + 1].i = log[k].i
              /\ log[k + 1].args = log[k].args
         /\ k = Len(log) => pc \in {"pull", "tag", "push", "digest", "size"}
         /\ log[k].i <= Len(results)
         /\ log[k].i < Len(results) => k < Len(log)
  /\ (Len(log) > 0 /\ log[Len(log)].ev = "exec") =>
       /\ log[Len(log)].i = Len(results)
       /\ \A m \in DOMAIN log :
            log[m].ev = "exec" => log[m].i <= log[Len(log)].i

\* the pull of the second descriptor is in flight, the first is recorded
C12_Witness ==
  /\ pc = "pull"
  /\ i = 1
  /\ Len(results) = 1
  /\ log[Len(log)].ev = "exec"
  /\ log[Len(log)].i = 1

\* C13: pull, tag and push are each issued at most once per list position
\* (no two calls of one step share a position), also after a failure, and
\* when the loop has finished every position has been visited exactly once.
C13_NoRetry ==
  /\ \A op \in TransferSteps :
       LET calls == {k \in DOMAIN log :
                       log[k].ev = "exec" /\ log[k].args[1] = op}
       IN Cardinality({log[k].i : k \in calls}) = Cardinality(calls)
  /\ LoopFinished =>
       {log[k].i : k \in {m \in DOMAIN log :
                            log[m].ev = "exec" /\ log[m].args[1] = "pull"}}
         = 0..(Len(images) - 1)

\* the first of two descriptors failed at its pull and the loop went on
C13_Witness ==
  /\ LoopFinished
  /\ Len(images) = 2
  /\ Failures("pull", 0) # {}
  /\ Cardinality(Execs("pull", 0)) = 1
  /\ Cardinality(Execs("pull", 1)) = 1

\* the parsed value of the supplied channel
SuppliedValue == JSONParse(SuppliedText).value

\* the supplied channel, holding the text of value v instead
ValidateWith(v) ==
  IF Len(imagesInput) > 0
    THEN Validate(JSONStringify(v), imagesFileInput, fileContent)
    ELSE Validate(imagesInput, imagesFileInput, JSONStringify(v))

\* C14: a run on a single non-list value is in the state of the run on the
\* one-element list of that value: the same validated list (of length 1, so
\* engine calls, outcomes and counts are those of position 0 only) or the
\* same configuration error; a list is taken as it is.
C14_SingleValueAsList ==
  (pc # "start" /\ ListSupplied) =>
    IF IsArray(SuppliedValue)
      THEN ValidationPasses => images = SuppliedValue.items
      ELSE LET asList == ValidateWith(Arr(<< SuppliedValue >>))
           IN IF asList.ok
                THEN /\ images = asList.images
                     /\ images = << SuppliedValue >>
                     /\ \A k \in DOMAIN log : log[k].ev = "exec" => log[k].i = 0
                     /\ Len(results) <= 1
                     /\ \A k \in DOMAIN Written("total-count") :
                          Written("total-count")[k].value = "1"
                ELSE /\ pc = "done"
                     /\ NothingDone
                     /\ log = << SetFailed("Action failed with error: "
                                           \o asList.message) >>

\* a single descriptor read from the file has been mirrored and reported
C14_Witness ==
  /\ pc = "done"
  /\ imagesFileInput = Path
  /\ fileContent = << Val(D2) >>
  /\ images = << D2 >>
  /\ Len(results) = 1
  /\ Len(Written("total-count")) = 1

\* C15: every engine call is made for its own descriptor: the pull carries
\* --platform <architecture> and names the source, the tag maps the source
\* to the destination, push and inspect name the destination.
C15_CallsNameDescriptor ==
  LET list == SuppliedList
  IN \A k \in DOMAIN log :
       log[k].ev = "exec" =>
         LET d == list[log[k].i + 1]
             a == log[k].args
         IN CASE a[1] = "pull" ->
                   a = <<"pull", "--platform", d.architecture, d.source>>
              [] a[1] = "tag" -> a = <<"tag", d.source, d.destination>>
              [] a[1] = "push" -> a = <<"push", d.destination>>
              [] a[1] = "inspect" ->
                   /\ Len(a) = 3
                   /\ a[2] \in {DigestFormat, SizeFormat}
                   /\ a[3] = d.destination
              [] OTHER -> FALSE

\* the second of two different descriptors has reached its inspect
C15_Witness ==
  /\ images = << D1, D2 >>
  /\ Issued("pull", 0)
  /\ Issued("pull", 1)
  /\ Issued("inspect", 1)

\* C16: whenever an element of the parsed list lacks a field (a null or a
\* non-object element included), the run fails with the message naming the
\* missing-field contract.
C16_ContractMessage ==
  (pc = "done" /\ ListSupplied
     /\ \E k \in DOMAIN SuppliedList : Lacks(SuppliedList[k])) =>
    /\ Len(FailedSignals) = 1
    /\ FailedSignals[1].message = "Action failed with error: " \o MissingFields

FailuresIn(outcomes) ==
  Cardinality({k \in DOMAIN outcomes : outcomes[k].status = "failed"})

\* C17: a batch that ends with a shortfall signals 'Failed to sync K out of N
\* image(s)', N the number of validated descriptors and K = N - successCount
\* the number of failed outcomes, with 1 <= K <= N.
C17_ShortfallMessage ==
  (pc = "done" /\ ValidationPasses /\ successCount < Len(SuppliedList)) =>
    LET N == Len(SuppliedList)
        K == FailuresIn(results)
    IN /\ K = N - successCount
       /\ 1 <= K
       /\ K <= N
       /\ FailedSignals =
            << SetFailed("Failed to sync " \o NumToString(K) \o " out of "
                         \o NumToString(N) \o " image(s)") >>

\* the first image was mirrored and the pull of the second failed
C17_Witness ==
  /\ pc = "done"
  /\ Len(images) = 2
  /\ results[1].status = "success"
  /\ Failures("pull", 1) # {}
  /\ FailedSignals = << SetFailed("Failed to sync 1 out of 2 image(s)") >>

AllWritten == \A name \in OutputNames : Cardinality(WrittenAt(name)) = 1

\* the three ways a run can end
ConfigurationFailure ==
  Len(FailedSignals) = 1 /\ NothingDone

FullSuccess ==
  AllWritten /\ Len(FailedSignals) = 0

Shortfall ==
  /\ AllWritten
  /\ Len(FailedSignals) = 1
  /\ \A k \in SignalledAt : \A name \in OutputNames :
       \A w \in WrittenAt(name) : w < k

\* C18: every run whose engine calls return ends, and ends as a
\* configuration failure (nothing written, no engine call), as a full
\* success (outputs, no signal) or as a shortfall (outputs, then one
\* signal); failure is signalled at most once, and once an engine call has
\* been issued no signal comes before the outputs.
C18_OneTerminalOutcome ==
  /\ <>(pc = "done")
  /\ [](pc = "done" => (ConfigurationFailure \/ FullSuccess \/ Shortfall))
  /\ [](Len(FailedSignals) <= 1)
  /\ [](Len(EngineCalls) > 0 =>
          \A k \in SignalledAt : \A name \in OutputNames :
            \E w \in WrittenAt(name) : w < k)

\* a run that issued engine calls and ended as a shortfall
C18_Witness ==
  /\ pc = "done"
  /\ Len(EngineCalls) > 0
  /\ Shortfall
  /\ ~ConfigurationFailure

\* C19: the empty list passes validation and the run is a full success: no
\* engine call, results is the empty list, both counts are 0, no signal.
C19_EmptyList ==
  (ListSupplied /\ SuppliedList = << >>) =>
    /\ Len(EngineCalls) = 0
    /\ Len(FailedSignals) = 0
    /\ pc \in {"start", "loop", "report", "done"}
    /\ pc = "done" =>
         log = << SetOutput("results", << LBr, RBr >>),
                  SetOutput("success-count", "0"),
                  SetOutput("total-count", "0") >>

\* the run on the inline text [] has ended
C19_Witness ==
  /\ pc = "done"
  /\ imagesInput = << LBr, RBr >>
  /\ imagesFileInput = NoPath
  /\ Len(Written("results")) = 1

DigestSucceeded(idx) ==
  \E k \in DOMAIN log :
    /\ log[k].ev = "exit" /\ log[k].i = idx /\ log[k].ok
    /\ log[k].args[1] = "inspect" /\ log[k].args[2] = DigestFormat

\* C20: the size query is issued only after the digest query succeeded; a
\* recorded size that is not empty implies the digest query succeeded; when
\* the digest query failed, digest and size are empty and one inspect call
\* was made.
C20_SizeAfterDigest ==
  /\ \A k \in DOMAIN log :
       (log[k].ev = "exec" /\ log[k].args[1] = "inspect"
          /\ log[k].args[2] = SizeFormat) =>
         \E m \in 1..(k - 1) :
           /\ log[m].ev = "exit" /\ log[m].i = log[k].i /\ log[m].ok
           /\ log[m].args[1] = "inspect" /\ log[m].args[2] = DigestFormat
  /\ \A idx \in 0..(Len(results) - 1) :
       /\ (results[idx + 1].status = "success" /\ results[idx + 1].size # "")
            => DigestSucceeded(idx)
       /\ DigestFailures(idx) # {} =>
            /\ results[idx + 1].digest = ""
            /\ results[idx + 1].size = ""
            /\ Cardinality(Execs("inspect", idx)) = 1

\* one outcome with a digest and no size (the size query failed), one with
\* neither (the digest query failed)
C20_Witness ==
  /\ Len(results) = 2
  /\ SizeFailures(0) # {}
  /\ results[1].digest # ""
  /\ results[1].size = ""
  /\ DigestFailures(1) # {}
  /\ Cardinality(Execs("inspect", 1)) = 1

====
